---- MODULE Spec2Model ----
(***************************************************************************)
(* Model of build_data.py: the Cleaner (fix_lines, is_equity_cusip,        *)
(* offset_date) and Aggregator.run, which repairs pipe-delimited           *)
(* fails-to-deliver files, filters them, buckets the rows into semimonthly *)
(* periods and merges each bucket into <period>.zip.                       *)
(*                                                                         *)
(* Text is modelled as sequences of one-character strings, so that         *)
(* splitting, trimming, parsing and formatting are computed, not assumed.  *)
(***************************************************************************)
EXTENDS Integers, Sequences, FiniteSets, TLC

\* ------------------------------------------------------------------ text

DigitChars == <<"0", "1", "2", "3", "4", "5", "6", "7", "8", "9">>

IsDigit(c) == \E i \in 1..10 : DigitChars[i] = c

DigitVal(c) == (CHOOSE i \in 1..10 : DigitChars[i] = c) - 1

AllDigits(s) == \A i \in 1..Len(s) : IsDigit(s[i])

\* str(int(n)) for n >= 0
RECURSIVE Digits(_)
Digits(n) == IF n < 10 THEN <<DigitChars[n + 1]>>
             ELSE Append(Digits(n \div 10), DigitChars[(n % 10) + 1])

\* int(s) for a string of digits
RECURSIVE DigitsVal(_)
DigitsVal(s) == IF s = <<>> THEN 0
                ELSE 10 * DigitsVal(SubSeq(s, 1, Len(s) - 1)) + DigitVal(s[Len(s)])

\* s.split(sep): always at least one part
RECURSIVE Split(_, _)
Split(s, sep) ==
    IF \A i \in 1..Len(s) : s[i] # sep THEN <<s>>
    ELSE LET k == CHOOSE i \in 1..Len(s) :
                      s[i] = sep /\ \A j \in 1..(i - 1) : s[j] # sep
         IN  <<SubSeq(s, 1, k - 1)>> \o Split(SubSeq(s, k + 1, Len(s)), sep)

\* s.strip()
RECURSIVE Strip(_)
Strip(s) == IF s = <<>> THEN s
            ELSE IF s[1] = " " THEN Strip(Tail(s))
            ELSE IF s[Len(s)] = " " THEN Strip(SubSeq(s, 1, Len(s) - 1))
            ELSE s

\* sep.join(parts)
RECURSIVE Join(_, _)
Join(parts, sep) ==
    IF parts = <<>> THEN <<>>
    ELSE IF Len(parts) = 1 THEN parts[1]
    ELSE parts[1] \o <<sep>> \o Join(Tail(parts), sep)

\* [f(x) for x in s]
StripAll(parts) == [i \in 1..Len(parts) |-> Strip(parts[i])]

Range(s) == {s[i] : i \in 1..Len(s)}

\* ------------------------------------------------------- Cleaner.fix_lines

NoRow == <<>>

\* One data line of fix_lines: the six-field row it appends, or NoRow.
RepairBranchNoJoin(parts) ==
    LET n == Len(parts)
    IN  IF n = 6 THEN parts
        ELSE IF n = 7 THEN SubSeq(parts, 1, 5) \o <<parts[7]>>
        ELSE IF n > 7
             THEN SubSeq(parts, 1, 4) \o <<Join(SubSeq(parts, 5, n - 1), "-")>> \o <<parts[n]>>
        ELSE NoRow

RepairBranch(parts) ==
    LET n == Len(parts)
    IN  IF n = 6 THEN parts
        ELSE IF n = 7
             THEN SubSeq(parts, 1, 4) \o <<parts[5] \o <<"-">> \o parts[6]>> \o <<parts[7]>>
        ELSE IF n > 7
             THEN SubSeq(parts, 1, 4) \o <<Join(SubSeq(parts, 5, n - 1), "-")>> \o <<parts[n]>>
        ELSE NoRow

RepairLine(ln) ==
    LET row == RepairBranch(StripAll(Split(ln, "|")))
    IN  IF row = NoRow THEN NoRow
        ELSE IF Strip(row[2]) = <<>> THEN NoRow
        ELSE row

HeaderOf(ln) ==
    LET h == StripAll(Split(ln, "|"))
    IN  SubSeq(h, 1, IF Len(h) < 6 THEN Len(h) ELSE 6)

RECURSIVE RepairAll(_)
RepairAll(lns) ==
    IF lns = <<>> THEN <<>>
    ELSE LET row == RepairLine(lns[1])
         IN  (IF row = NoRow THEN <<>> ELSE <<row>>) \o RepairAll(Tail(lns))

\* fix_lines: [raised, header, rows].  An unreadable or empty file is the
\* empty frame; pd.DataFrame(rows, columns=header) raises ValueError when
\* there are rows and the header does not name exactly six columns.
EmptyFrame == [raised |-> FALSE, header |-> <<>>, rows |-> <<>>]

fix_lines(file) ==
    IF file.kind = "unreadable" THEN EmptyFrame
    ELSE IF file.lines = <<>> THEN EmptyFrame
    ELSE LET header == HeaderOf(file.lines[1])
             rows   == RepairAll(Tail(file.lines))
         IN  IF rows # <<>> /\ Len(header) # 6
             THEN [raised |-> TRUE, header |-> header, rows |-> <<>>]
             ELSE [raised |-> FALSE, header |-> header, rows |-> rows]

\* ------------------------------------------------- Cleaner.is_equity_cusip

\* upper() changes no digit and no position of the identifiers of the model,
\* so the three tests read the trimmed string.
is_equity_cusip(cusip) ==
    LET c == Strip(cusip)
    IN  /\ Len(c) >= 8
        /\ c[1] = "0"
        /\ SubSeq(c, 7, 8) = <<"1", "0">>

\* ----------------------------------------------------- Cleaner.offset_date

NaT == [y |-> 0, m |-> 0, d |-> 0]

IsLeap(y) == (y % 4 = 0 /\ y % 100 # 0) \/ y % 400 = 0

DaysInMonth(y, m) ==
    IF m = 2 THEN (IF IsLeap(y) THEN 29 ELSE 28)
    ELSE IF m \in {4, 6, 9, 11} THEN 30
    ELSE 31

\* d + pd.offsets.MonthEnd(0): roll forward to the month's end
MonthEnd0(d) == [d EXCEPT !.d = DaysInMonth(d.y, d.m)]

\* d + pd.offsets.MonthBegin(1): the first day of the following month
MonthBegin1(d) ==
    IF d.m = 12 THEN [y |-> d.y + 1, m |-> 1, d |-> 1]
    ELSE [y |-> d.y, m |-> d.m + 1, d |-> 1]

MidMonth == 15

offset_date_before15(d) ==
    IF d = NaT THEN NaT
    ELSE IF d.d < MidMonth THEN MonthEnd0(d)
    ELSE [MonthBegin1(d) EXCEPT !.d = MidMonth]

offset_date(d) ==
    IF d = NaT THEN NaT
    ELSE IF d.d <= MidMonth THEN MonthEnd0(d)
    ELSE [MonthBegin1(d) EXCEPT !.d = MidMonth]

\* ---------------------------------------------------------------- values

\* A cell of a data frame: a string, a number (in thousandths, so that the
\* third decimal a price may carry survives parsing), an integer (a column
\* read_csv inferred as int64 and that stays a column of Python ints once
\* concatenated with strings) or NaN.
NaN == [t |-> "nan", v |-> 0]

StrCell(s) == [t |-> "str", v |-> s]

NumCell(milli) == [t |-> "num", v |-> milli]

IntCell(n) == [t |-> "int", v |-> n]

\* frac digits as thousandths: "5" -> 500, "04" -> 40, "004" -> 4.  The
\* inputs carry at most three decimals.
FracMilli(f) ==
    IF Len(f) = 0 THEN 0
    ELSE IF Len(f) = 1 THEN 100 * DigitsVal(f)
    ELSE IF Len(f) = 2 THEN 10 * DigitsVal(f)
    ELSE DigitsVal(SubSeq(f, 1, 3))

\* pd.to_numeric(x, errors="coerce") of one string: unsigned decimals
\* "12", "12.", "12.5", ".5" parse, everything else is NaN.
to_numeric(s) ==
    LET ps == Split(s, ".")
    IN  IF Len(ps) = 1 /\ Len(ps[1]) > 0 /\ AllDigits(ps[1])
        THEN NumCell(1000 * DigitsVal(ps[1]))
        ELSE IF /\ Len(ps) = 2
                /\ Len(ps[1]) + Len(ps[2]) > 0
                /\ AllDigits(ps[1]) /\ AllDigits(ps[2])
        THEN NumCell(1000 * DigitsVal(ps[1]) + FracMilli(ps[2]))
        ELSE NaN

\* pd.to_datetime(x, format="%Y%m%d", errors="coerce") of one string
to_datetime(s) ==
    IF Len(s) = 8 /\ AllDigits(s)
    THEN LET y == DigitsVal(SubSeq(s, 1, 4))
             m == DigitsVal(SubSeq(s, 5, 6))
             d == DigitsVal(SubSeq(s, 7, 8))
         IN  IF y >= 1 /\ m \in 1..12 /\ d >= 1 /\ d <= DaysInMonth(y, m)
             THEN [y |-> y, m |-> m, d |-> d]
             ELSE NaT
    ELSE NaT

DateNum(d) == d.y * 10000 + d.m * 100 + d.d

\* d.strftime("%Y%m%d"), for the four-digit years of the model
strftime(d) == Digits(DateNum(d))

\* pd.Timestamp("2009-07-01")
CutoffDate == [y |-> 2009, m |-> 7, d |-> 1]

\* f"{x:.2f}" of a number held in thousandths (no input is a rounding tie)
Fmt2f(milli) ==
    LET h == (milli + 5) \div 10
        c == h % 100
    IN  Digits(h \div 100) \o <<".">> \o
        (IF c < 10 THEN <<"0">> ELSE <<>>) \o Digits(c)

FmtQuantityAlways2f(q) == IF q.t = "nan" THEN <<>> ELSE Fmt2f(q.v)

\* q_str of Aggregator.run
FmtQuantity(q) ==
    IF q.t = "nan" THEN <<>>
    ELSE IF q.v % 1000 = 0 THEN Digits(q.v \div 1000)
    ELSE Fmt2f(q.v)

\* p_str of Aggregator.run
FmtPrice(p) == IF p.t = "nan" THEN <<>> ELSE Fmt2f(p.v)

\* f"{x}" of a DATE or SYMBOL cell
FmtCell(c) ==
    IF c.t = "nan" THEN <<"n", "a", "n">>
    ELSE IF c.t = "int" THEN Digits(c.v)
    ELSE c.v

\* one output line: f"{DATE},{SYMBOL},{q_str},{p_str}"
FmtRow(r) ==
    Join(<<FmtCell(r[1]), FmtCell(r[2]), FmtQuantity(r[3]), FmtPrice(r[4])>>, ",")

FmtRows(data) == [i \in 1..Len(data) |-> FmtRow(data[i])]

\* ------------------------------------------------------------- the frame

N_CUSIP == <<"C", "U", "S", "I", "P">>

N_SYMBOL == <<"S", "Y", "M", "B", "O", "L">>

N_DATE == <<"S", "E", "T", "T", "L", "E", "M", "E", "N", "T", " ", "D", "A", "T", "E">>

N_QTY == <<"Q", "U", "A", "N", "T", "I", "T", "Y", " ", "(", "F", "A", "I", "L", "S", ")">>

N_PRICE == <<"P", "R", "I", "C", "E">>

N_DESC == <<"D", "E", "S", "C", "R", "I", "P", "T", "I", "O", "N">>

\* req of Aggregator.run
Required == {N_CUSIP, N_SYMBOL, N_DATE, N_QTY, N_PRICE}

Count(header, name) == Cardinality({i \in 1..Len(header) : header[i] = name})

Col(header, name) == CHOOSE i \in 1..Len(header) : header[i] = name

\* df[name] = pd.to_numeric(df[name], errors="coerce")
CoerceNumeric(rows, c) == [i \in 1..Len(rows) |-> [rows[i] EXCEPT ![c] = to_numeric(rows[i][c])]]

PriceKeptZero(cell) == cell.t = "num"

\* df = df[df["PRICE"].notna() & (df["PRICE"] != 0)], on a coerced column
PriceKept(cell) == cell.t = "num" /\ cell.v # 0

\* df[df["SETTLEMENT DATE"] >= pd.Timestamp("2009-07-01")]; NaT compares False
DateKept(d) == d # NaT /\ DateNum(d) >= DateNum(CutoffDate)

\* chunk[out_cols] of one surviving row: DATE is the strftime string
OutRow(header, row) ==
    <<StrCell(strftime(row[Col(header, N_DATE)])),
      StrCell(row[Col(header, N_SYMBOL)]),
      row[Col(header, N_QTY)],
      row[Col(header, N_PRICE)]>>

\* the sorted distinct keys of df.groupby(df["OFFSET_DATE"])
RECURSIVE SortedKeys(_)
SortedKeys(ks) ==
    IF ks = {} THEN <<>>
    ELSE LET k == CHOOSE x \in ks : \A y \in ks : x <= y
         IN  <<k>> \o SortedKeys(ks \ {k})

GroupBy(header, rows) ==
    LET dcol    == Col(header, N_DATE)
        key(r)  == DateNum(offset_date(r[dcol]))
        keys    == SortedKeys({key(rows[i]) : i \in 1..Len(rows)})
        InK(k)  == LET Test(r) == key(r) = k IN SelectSeq(rows, Test)
    IN  [g \in 1..Len(keys) |->
            [period |-> keys[g],
             data   |-> LET ch == InK(keys[g])
                        IN  [i \in 1..Len(ch) |-> OutRow(header, ch[i])]]]

\* Lines 261-293 of Aggregator.run for one file: what the file comes to
\* before any archive is touched.  "raise": an exception leaves run();
\* "discard": the file is unlinked with nothing written; "groups": the
\* period groups to merge.  Of repeated header names only a repeated PRICE or
\* QUANTITY (FAILS) is modelled: df[name] is then a frame and pd.to_numeric
\* raises TypeError.
Discard == [outcome |-> "discard", groups |-> <<>>]

Raise == [outcome |-> "raise", groups |-> <<>>]

\* lines 284-293
PrepareDates(h, rows) ==
    LET dc == Col(h, N_DATE)
        TestD(r) == DateKept(r[dc])
        kept == SelectSeq([i \in 1..Len(rows) |-> [rows[i] EXCEPT ![dc] = to_datetime(rows[i][dc])]],
                          TestD)
    IN  IF kept = <<>> THEN Discard
        ELSE [outcome |-> "groups", groups |-> GroupBy(h, kept)]

\* lines 278-282
PrepareCusip(h, rows) ==
    LET cc == Col(h, N_CUSIP)
        TestC(r) == is_equity_cusip(r[cc])
        kept == SelectSeq(rows, TestC)
    IN  IF kept = <<>> THEN Discard ELSE PrepareDates(h, kept)

\* lines 270-276
PrepareQuantity(h, rows) ==
    IF Count(h, N_QTY) > 1 THEN Raise
    ELSE IF ~(Required \subseteq Range(h)) THEN Discard
    ELSE PrepareCusip(h, CoerceNumeric(rows, Col(h, N_QTY)))

\* lines 266-268
PreparePrice(h, rows) ==
    IF Count(h, N_PRICE) > 1 THEN Raise
    ELSE IF Count(h, N_PRICE) = 0 THEN PrepareQuantity(h, rows)
    ELSE LET c == Col(h, N_PRICE)
             Test(r) == PriceKept(r[c])
         IN  PrepareQuantity(h, SelectSeq(CoerceNumeric(rows, c), Test))

\* lines 261-264
PrepareFrame(df) ==
    IF df.raised THEN Raise
    ELSE IF df.rows = <<>> THEN Discard
    ELSE PreparePrice(df.header, df.rows)

Prepare(file) == PrepareFrame(fix_lines(file))

\* ------------------------------------------------------------ the archive

\* A period archive on disk: no file, a file that is no readable zip
\* container, or a container that may hold the member <period>.csv, whose
\* text is a sequence of lines.
NoFile == [kind |-> "none", hasCsv |-> FALSE, recs |-> <<>>]

BadZip == [kind |-> "bad", hasCsv |-> FALSE, recs |-> <<>>]

\* a member that is no four-column table: x,x,x,x,x
Garbled == <<<<"x", ",", "x", ",", "x", ",", "x", ",", "x">>>>

Zip(hasCsv, recs) == [kind |-> "zip", hasCsv |-> hasCsv, recs |-> recs]

\* strings pd.read_csv reads as missing (those the symbols of the model and
\* the formatting of NaN reach; the empty field is one)
NaStrings == {<<>>, <<"N", "A">>, <<"n", "a", "n">>}

Field(f, k) == IF k <= Len(f) THEN f[k] ELSE <<>>

\* One row of pd.read_csv(member, header=None).  DATE, all digits in every
\* archive run() writes, is inferred int64: once concatenated with the new
\* rows, whose DATE is the strftime string, the column holds Python ints
\* for the old rows and strings for the new ones.  SYMBOL stays text with
\* the NA strings read as NaN; QUANTITY and PRICE are numeric, NaN when empty.
ReadRow(f) ==
    <<IF AllDigits(Field(f, 1)) /\ Field(f, 1) # <<>> THEN IntCell(DigitsVal(Field(f, 1)))
      ELSE IF Field(f, 1) \in NaStrings THEN NaN ELSE StrCell(Field(f, 1)),
      IF Field(f, 2) \in NaStrings THEN NaN ELSE StrCell(Field(f, 2)),
      to_numeric(Field(f, 3)),
      to_numeric(Field(f, 4))>>

\* pd.read_csv(member, header=None) followed by old.columns = out_cols[:n].
\* The first line sets the number of columns; shorter lines are filled with
\* NaN.  An empty member (EmptyDataError), a line with more fields than the
\* first (ParserError) and more than four columns (length mismatch on
\* old.columns) all raise, which line 309 catches.
read_csv(recs) ==
    LET fs == [i \in 1..Len(recs) |-> Split(recs[i], ",")]
    IN  IF recs = <<>> THEN [ok |-> FALSE, rows |-> <<>>]
        ELSE IF Len(fs[1]) > 4 \/ \E i \in 1..Len(fs) : Len(fs[i]) > Len(fs[1])
        THEN [ok |-> FALSE, rows |-> <<>>]
        ELSE [ok |-> TRUE, rows |-> [i \in 1..Len(fs) |-> ReadRow(fs[i])]]

\* DataFrame.drop_duplicates(): the first of equal rows is kept
RECURSIVE drop_duplicates(_)
drop_duplicates(rows) ==
    IF rows = <<>> THEN <<>>
    ELSE LET init == drop_duplicates(SubSeq(rows, 1, Len(rows) - 1))
             r    == rows[Len(rows)]
         IN  IF r \in Range(init) THEN init ELSE Append(init, r)

\* whether lines 302-308 read the old record set
Readable(arch) == arch.kind = "zip" /\ arch.hasCsv /\ read_csv(arch.recs).ok

MergeDataDedupNew(arch, data) ==
    IF Readable(arch)
    THEN drop_duplicates(read_csv(arch.recs).rows \o data)
    ELSE drop_duplicates(data)

\* lines 300-310: the table to write for one group
MergeData(arch, data) ==
    IF Readable(arch)
    THEN drop_duplicates(read_csv(arch.recs).rows \o data)
    ELSE data

\* ----------------------------------------------------------- the inputs

Line(fields) == Join(fields, "|")

Text(lines) == [kind |-> "text", lines |-> lines]

Unreadable == [kind |-> "unreadable", lines |-> <<>>]

Absent == [kind |-> "absent", lines |-> <<>>]

EquityCusip == <<"0">> \o Digits(1234510)

H6 == Line(<<N_CUSIP, N_SYMBOL, N_DATE, N_QTY, N_DESC, N_PRICE>>)

H5 == Line(<<N_CUSIP, N_SYMBOL, N_DATE, N_QTY, N_PRICE>>)

H7 == Line(<<N_CUSIP, N_SYMBOL, N_DATE, N_QTY, N_DESC, N_PRICE, <<"X">>>>)

HDupPrice == Line(<<N_CUSIP, N_SYMBOL, N_DATE, N_QTY, N_PRICE, N_PRICE>>)

HNoCusip == Line(<<<<"I", "D">>, N_SYMBOL, N_DATE, N_QTY, N_DESC, N_PRICE>>)

S_ABC == <<"A", "B", "C">>

S_NA == <<"N", "A">>

S_DEF == <<"D", "E", "F">>

S_BAD == <<"B", "A", "D">>

P_10_00 == <<"1", "0", ".", "0", "0">>

\* 01234510|ABC|20200110|1500|X|10.00
LineA == Line(<<EquityCusip, S_ABC, Digits(20200110), Digits(1500), <<"X">>, P_10_00>>)

\* 01234510|NA|20200116|7.5|X|2.004
LineB == Line(<<EquityCusip, S_NA, Digits(20200116), <<"7", ".", "5">>, <<"X">>,
                <<"2", ".", "0", "0", "4">>>>)

\* 01234510 | DEF|20200131||a|b|3.1   (seven parts, no quantity)
LineC == Line(<<EquityCusip \o <<" ">>, <<" ">> \o S_DEF, Digits(20200131), <<>>,
                <<"a">>, <<"b">>, <<"3", ".", "1">>>>)

\* rejected lines, each for one reason, all with symbol BAD
LineZero == Line(<<EquityCusip, S_BAD, Digits(20200110), Digits(1), <<"X">>, <<"0", ".", "0", "0">>>>)

LineNoPrice == Line(<<EquityCusip, S_BAD, Digits(20200110), Digits(1), <<"X">>, <<>>>>)

LineBadPrice == Line(<<EquityCusip, S_BAD, Digits(20200110), Digits(1), <<"X">>, <<"1", "x">>>>)

LineShortCusip == Line(<<Digits(1234510), S_BAD, Digits(20200110), Digits(1), <<"X">>, P_10_00>>)

LineFirstCusip == Line(<<Digits(11234510), S_BAD, Digits(20200110), Digits(1), <<"X">>, P_10_00>>)

LineTypeCusip == Line(<<<<"0">> \o Digits(123451) \o <<"X">>, S_BAD, Digits(20200110), Digits(1),
                        <<"X">>, P_10_00>>)

LineOld == Line(<<EquityCusip, S_BAD, Digits(20090630), Digits(1), <<"X">>, P_10_00>>)

LineBadDate == Line(<<EquityCusip, S_BAD, Digits(20200230), Digits(1), <<"X">>, P_10_00>>)

\* 01234510|ABC|20200110|1500|10.00  (five parts)
LineFive == Line(<<EquityCusip, S_ABC, Digits(20200110), Digits(1500), P_10_00>>)

\* 01234510| |20200110|1|X|10.00  (empty symbol)
LineNoSymbol == Line(<<EquityCusip, <<" ">>, Digits(20200110), Digits(1), <<"X">>, P_10_00>>)

\* The files that may arrive, by number (the directory holds the number
\* of each file's content; 0 is no file).
\*  1-7   well-formed: the six-name header and accepted lines only
\*  8-10  rejected lines: all of them, those the price and identifier filters
\*        reject, and all of them around an accepted line
\*  11-17 malformed: unreadable, empty, five-name headers, a seven-name
\*        header, a repeated PRICE, a missing CUSIP
Files ==
    <<Text(<<H6>>),
      Text(<<H6, LineA>>),
      Text(<<H6, LineB>>),
      Text(<<H6, LineC>>),
      Text(<<H6, LineA, LineA>>),
      Text(<<H6, LineA, LineB>>),
      Text(<<H6, LineC, LineB, LineA>>),
      Text(<<H6, LineZero, LineNoPrice, LineBadPrice, LineShortCusip, LineFirstCusip,
             LineTypeCusip, LineOld, LineBadDate, LineFive, LineNoSymbol>>),
      Text(<<H6, LineZero, LineShortCusip>>),
      Text(<<H6, LineZero, LineNoPrice, LineBadPrice, LineShortCusip, LineFirstCusip,
             LineA, LineTypeCusip, LineOld, LineBadDate, LineFive, LineNoSymbol>>),
      Unreadable,
      Text(<<>>),
      Text(<<H5, LineFive>>),
      Text(<<H5, LineA>>),
      Text(<<H7, LineA>>),
      Text(<<HDupPrice, LineA>>),
      Text(<<HNoCusip, LineA>>)>>

FilePool == 1..Len(Files)

NoFileId == 0

FileOf(id) == IF id = NoFileId THEN Absent ELSE Files[id]

\* Prepare of every file of the pool, tabulated
Prepared == [id \in FilePool |-> Prepare(FileOf(id))]

\* directory entries: the suffix decides whether run() picks the file up
FileNames == {[stem |-> "cnsfails", suffix |-> ".txt"], [stem |-> "cnsfails", suffix |-> ""],
              [stem |-> "notes", suffix |-> ".dat"]}

\* p.suffix.lower() in (".txt", "", ".csv")
Eligible(name) == name.suffix \in {".txt", "", ".csv"}

\* what may arrive under a name: any file of the pool under a name run()
\* takes up, one fixed file under a name it skips
PoolFor(name) == IF Eligible(name) THEN FilePool ELSE {2}

\* ------------------------------------------------------------ the state

MaxFiles == 2

MaxCorrupt == 1

VARIABLES
    dir,        \* the input files of the output directory: name -> file number
    archives,   \* the period archives: period (YYYYMMDD number) -> archive
    pc,         \* where run() is: idle, iter, groups, writing, raised
    err,        \* what raised: "", "frame" (a pandas error), "fs" (a failed write)
    todo,       \* the entries iterdir() has still to yield
    picked,     \* the eligible files this run has taken up
    cur,        \* the file being processed: [name, file]
    groups,     \* the period groups of cur still to merge
    last,       \* the latest rewrite for cur: its period, the archive before
                \* it, the group's rows and whether the write ended
    delivered,  \* number of files put into the directory so far
    corrupted,  \* number of archives damaged from outside so far
    probeIn,    \* argument of the pure function under check
    probeOut    \* its result

vars == <<dir, archives, pc, err, todo, picked, cur, groups, last, delivered, corrupted,
          probeIn, probeOut>>

NoCur == [name |-> [stem |-> "", suffix |-> ""], file |-> NoFileId]

NoLast == [period |-> 0, before |-> NoFile, new |-> <<>>, done |-> FALSE]

ArchiveAt(p) == IF p \in DOMAIN archives THEN archives[p] ELSE NoFile

SetArchive(p, a) == [q \in DOMAIN archives \cup {p} |-> IF q = p THEN a ELSE archives[q]]

Init ==
    /\ dir = [n \in FileNames |-> NoFileId]
    /\ archives = <<>>
    /\ pc = "idle"
    /\ err = ""
    /\ todo = {}
    /\ picked = {}
    /\ cur = NoCur
    /\ groups = <<>>
    /\ last = NoLast
    /\ delivered = 0
    /\ corrupted = 0
    /\ probeIn = <<>>
    /\ probeOut = <<>>

\* The unzip step leaves a new file in the directory (between runs).
Deliver(n, f) ==
    /\ pc = "idle"
    /\ delivered < MaxFiles
    /\ dir[n] = NoFileId
    /\ dir' = [dir EXCEPT ![n] = f]
    /\ delivered' = delivered + 1
    /\ UNCHANGED <<archives, pc, err, todo, picked, cur, groups, last, corrupted,
                   probeIn, probeOut>>

Damaged == {BadZip, Zip(FALSE, <<>>), Zip(TRUE, <<>>), Zip(TRUE, Garbled)}

\* An archive is damaged from outside (between runs): it stops being a zip
\* container, loses its member, or its member becomes empty or garbled.
Damage(p, a) ==
    /\ pc = "idle"
    /\ corrupted < MaxCorrupt
    /\ p \in DOMAIN archives
    /\ archives[p] # a
    /\ archives' = [archives EXCEPT ![p] = a]
    /\ corrupted' = corrupted + 1
    /\ UNCHANGED <<dir, pc, err, todo, picked, cur, groups, last, delivered,
                   probeIn, probeOut>>

\* Aggregator.run is called: iterdir() lists the directory.
StartRun ==
    /\ pc = "idle"
    /\ pc' = "iter"
    /\ todo' = {n \in FileNames : dir[n] # NoFileId}
    /\ UNCHANGED <<dir, archives, err, picked, cur, groups, last, delivered, corrupted,
                   probeIn, probeOut>>

\* line 258: an entry with another suffix is skipped
SkipEntry(n) ==
    /\ pc = "iter"
    /\ n \in todo
    /\ ~Eligible(n)
    /\ todo' = todo \ {n}
    /\ UNCHANGED <<dir, archives, pc, err, picked, cur, groups, last, delivered,
                   corrupted, probeIn, probeOut>>

\* lines 261-293: the next file is repaired, coerced and filtered
PickFile(n) ==
    /\ pc = "iter"
    /\ n \in todo
    /\ Eligible(n)
    /\ LET prep == Prepared[dir[n]]
       IN  /\ todo' = todo \ {n}
           /\ picked' = picked \cup {n}
           /\ cur' = [name |-> n, file |-> dir[n]]
           /\ groups' = prep.groups
           /\ last' = NoLast
           /\ \/ /\ prep.outcome = "raise"
                 /\ pc' = "raised"
                 /\ err' = "frame"
                 /\ dir' = dir
              \/ /\ prep.outcome = "discard"
                 /\ pc' = "iter"
                 /\ err' = err
                 /\ dir' = [dir EXCEPT ![n] = NoFileId]
              \/ /\ prep.outcome = "groups"
                 /\ pc' = "groups"
                 /\ err' = err
                 /\ dir' = dir
    /\ UNCHANGED <<archives, delivered, corrupted, probeIn, probeOut>>

\* lines 296-319: the old record set is read and merged, the lines are
\* formatted, and ZipFile(zip_path, "w") opens the archive, truncating it
OpenArchive ==
    /\ pc = "groups"
    /\ groups # <<>>
    /\ LET g == groups[1]
       IN  /\ last' = [period |-> g.period, before |-> ArchiveAt(g.period),
                       new |-> g.data, done |-> FALSE]
           /\ archives' = SetArchive(g.period, BadZip)
    /\ pc' = "writing"
    /\ UNCHANGED <<dir, err, todo, picked, cur, groups, delivered, corrupted,
                   probeIn, probeOut>>

\* lines 319-320: writestr and the close of the container succeed
CloseArchive ==
    /\ pc = "writing"
    /\ archives' = SetArchive(last.period, Zip(TRUE, FmtRows(MergeData(last.before, last.new))))
    /\ last' = [last EXCEPT !.done = TRUE]
    /\ groups' = Tail(groups)
    /\ pc' = "groups"
    /\ UNCHANGED <<dir, err, todo, picked, cur, delivered, corrupted, probeIn, probeOut>>

\* lines 319-320: the write fails (OSError, disk full) and leaves run(); what
\* is left of the file is no container, or a container without the member
WriteFails ==
    /\ pc = "writing"
    /\ pc' = "raised"
    /\ err' = "fs"
    /\ \E left \in {BadZip, Zip(FALSE, <<>>)} : archives' = SetArchive(last.period, left)
    /\ UNCHANGED <<dir, todo, picked, cur, groups, last, delivered, corrupted,
                   probeIn, probeOut>>

\* line 324: every group is written, the input file is unlinked
Unlink ==
    /\ pc = "groups"
    /\ groups = <<>>
    /\ dir' = [dir EXCEPT ![cur.name] = NoFileId]
    /\ pc' = "iter"
    /\ UNCHANGED <<archives, err, todo, picked, cur, groups, last, delivered, corrupted,
                   probeIn, probeOut>>

\* iterdir() is exhausted: run() returns
EndRun ==
    /\ pc = "iter"
    /\ todo = {}
    /\ pc' = "idle"
    /\ picked' = {}
    /\ cur' = NoCur
    /\ last' = NoLast
    /\ UNCHANGED <<dir, archives, err, todo, groups, delivered, corrupted, probeIn, probeOut>>

\* the exception leaves run() and ends the process; the directory and the
\* archives stay as they are
Propagate ==
    /\ pc = "raised"
    /\ pc' = "idle"
    /\ err' = ""
    /\ todo' = {}
    /\ picked' = {}
    /\ cur' = NoCur
    /\ groups' = <<>>
    /\ last' = NoLast
    /\ UNCHANGED <<dir, archives, delivered, corrupted, probeIn, probeOut>>

Next ==
    \/ \E n \in FileNames : \E f \in PoolFor(n) : Deliver(n, f)
    \/ \E p \in DOMAIN archives, a \in Damaged : Damage(p, a)
    \/ StartRun
    \/ \E n \in FileNames : SkipEntry(n)
    \/ \E n \in FileNames : PickFile(n)
    \/ OpenArchive
    \/ CloseArchive
    \/ WriteFails
    \/ Unlink
    \/ EndRun
    \/ Propagate

Spec == Init /\ [][Next]_vars

\* ------------------------------------------------ Cleaner.offset_date alone

FirstYear == 2019

LastYear == 2021

Dates == {dt \in [y : FirstYear..LastYear, m : 1..12, d : 1..31] : dt.d <= DaysInMonth(dt.y, dt.m)}

InitDate ==
    /\ Init!1 /\ Init!2 /\ Init!3 /\ Init!4 /\ Init!5 /\ Init!6 /\ Init!7 /\ Init!8
    /\ Init!9 /\ Init!10 /\ Init!11
    /\ probeIn \in Dates \cup {NaT}
    /\ probeOut = <<>>

ApplyOffset ==
    /\ probeOut = <<>>
    /\ probeOut' = <<offset_date(probeIn)>>
    /\ UNCHANGED <<dir, archives, pc, err, todo, picked, cur, groups, last, delivered,
                   corrupted, probeIn>>

SpecDate == InitDate /\ [][ApplyOffset]_vars

\* ------------------------------------- one data line of Cleaner.fix_lines

MaxLineLen == 9

LineChars == {"a", " ", "|"}

InitRepair ==
    /\ Init!1 /\ Init!2 /\ Init!3 /\ Init!4 /\ Init!5 /\ Init!6 /\ Init!7 /\ Init!8
    /\ Init!9 /\ Init!10 /\ Init!11
    /\ probeIn \in UNION {[1..k -> LineChars] : k \in 0..MaxLineLen}
    /\ probeOut = <<>>

ApplyRepair ==
    /\ probeOut = <<>>
    /\ probeOut' = <<RepairLine(probeIn)>>
    /\ UNCHANGED <<dir, archives, pc, err, todo, picked, cur, groups, last, delivered,
                   corrupted, probeIn>>

SpecRepair == InitRepair /\ [][ApplyRepair]_vars

\* ---------------------------------------------------------------- claims

\* the lines a readable archive holds; an archive that cannot be read holds none
RecSet(arch) == IF arch.kind = "zip" /\ arch.hasCsv THEN Range(arch.recs) ELSE {}

Rewritten == last # NoLast /\ last.done

\* 20200110,ABC,1500,10.00
RecordA == Join(<<Digits(20200110), S_ABC, Digits(1500), P_10_00>>, ",")

PeriodA == DateNum([y |-> 2020, m |-> 1, d |-> 31])

\* C1: when the rows of a period group are, as written, all lines the
\* readable archive already holds, the rewrite leaves the archive's lines
\* and their number as they were.
C1_MergeIdempotent ==
    (/\ Rewritten
     /\ Readable(last.before)
     /\ Range(FmtRows(last.new)) \subseteq Range(last.before.recs))
    => /\ RecSet(ArchiveAt(last.period)) = Range(last.before.recs)
       /\ Len(ArchiveAt(last.period).recs) = Len(last.before.recs)

\* C2: a rewrite of a readable archive keeps every line the archive held.
C2_Retention ==
    (Rewritten /\ Readable(last.before))
    => Range(last.before.recs) \subseteq RecSet(ArchiveAt(last.period))

\* what C3 rejects: a PRICE that is missing, unparsable or zero, a CUSIP
\* that fails the equity test, a SETTLEMENT DATE that is unparsable or
\* earlier than 2009-07-01
C3_Rejected(h, row) ==
    LET price == to_numeric(row[Col(h, N_PRICE)])
        c     == Strip(row[Col(h, N_CUSIP)])
        date  == to_datetime(row[Col(h, N_DATE)])
    IN  \/ price = NaN \/ price.v = 0
        \/ Len(c) < 8 \/ c[1] # "0" \/ c[7] # "1" \/ c[8] # "0"
        \/ date = NaT \/ DateNum(date) < 20090701

C3_Projected(h, row) ==
    <<StrCell(row[Col(h, N_DATE)]), StrCell(row[Col(h, N_SYMBOL)]),
      to_numeric(row[Col(h, N_QTY)]), to_numeric(row[Col(h, N_PRICE)])>>

\* the output rows of the repaired rows of a file that C3 does not reject
C3_AcceptedOf(file) ==
    LET df == fix_lines(file)
    IN  IF df.raised \/ ~(Required \subseteq Range(df.header)) THEN {}
        ELSE {C3_Projected(df.header, df.rows[i]) :
                 i \in {j \in 1..Len(df.rows) : ~C3_Rejected(df.header, df.rows[j])}}

C3_Accepted == [id \in FilePool |-> C3_AcceptedOf(FileOf(id))]

\* their lines, as first written and as written again after a read
C3_AcceptedLines ==
    LET once == {FmtRow(r) : r \in UNION {C3_Accepted[id] : id \in FilePool}}
    IN  once \cup {FmtRow(ReadRow(Split(rec, ","))) : rec \in once}

\* C3: every row of a period group about to be merged comes from a row of
\* the file that is not rejected, and every line of every archive that can
\* be read is the line of such a row.
C3_NoRejectedRow ==
    /\ \A i \in 1..Len(groups) : Range(groups[i].data) \subseteq C3_Accepted[cur.file]
    /\ pc = "writing" => Range(last.new) \subseteq C3_Accepted[cur.file]
    /\ \A p \in DOMAIN archives :
          Readable(archives[p]) => Range(archives[p].recs) \subseteq C3_AcceptedLines

\* a file with rejected rows around an accepted one has been merged
C3_Witness ==
    /\ Rewritten
    /\ Len(FileOf(cur.file).lines) > 10
    /\ RecSet(ArchiveAt(PeriodA)) # {}

C4_FiveFields == Text(<<H5, LineFive>>)

\* C4, as claimed: once run() is through the file with the five-name header
\* and the five-field row, the archive of 20200131 holds 20200110,ABC,1500,10.00.
C4_FiveFieldRowArchived ==
    (pc = "iter" /\ FileOf(cur.file) = C4_FiveFields)
    => RecordA \in RecSet(ArchiveAt(PeriodA))

C4_SixFields == Text(<<H6, LineA>>)

\* C4, amended: once run() is through the file with the six-name header and
\* the six-field row, the archive of 20200131 holds 20200110,ABC,1500,10.00
\* and the file is gone.
C4_SixFieldRowArchived ==
    (pc = "iter" /\ FileOf(cur.file) = C4_SixFields)
    => /\ RecordA \in RecSet(ArchiveAt(PeriodA))
       /\ dir[cur.name] = NoFileId

\* the six-field file has made a new archive holding the one record
C4_Witness ==
    /\ pc = "iter"
    /\ FileOf(cur.file) = C4_SixFields
    /\ ArchiveAt(PeriodA) = Zip(TRUE, <<RecordA>>)

RunOver == pc = "raised" \/ (pc = "iter" /\ todo = {})

\* C5: when run() is over, other than by a failed archive write, every file
\* it took up is gone from the directory; and a file is gone only once none
\* of its groups is left to write.
C5_Consumed ==
    /\ (RunOver /\ err # "fs") => \A n \in picked : dir[n] = NoFileId
    /\ (cur # NoCur /\ dir[cur.name] = NoFileId) => groups = <<>>

C6_LastDay(y, m) == CHOOSE d \in 28..31 : d <= DaysInMonth(y, m) /\ d + 1 > DaysInMonth(y, m)

C6_Expected(d) ==
    IF d = NaT THEN NaT
    ELSE IF d.d <= 15 THEN [y |-> d.y, m |-> d.m, d |-> C6_LastDay(d.y, d.m)]
    ELSE [y |-> IF d.m = 12 THEN d.y + 1 ELSE d.y,
          m |-> IF d.m = 12 THEN 1 ELSE d.m + 1,
          d |-> 15]

\* C6: offset_date maps a date of day <= 15 to the last day of its month,
\* a later one to the 15th of the following month (December to January of
\* the next year), and a missing date to a missing period; 2020-01-15 goes
\* to 2020-01-31, 2020-01-16 and 2020-01-31 to 2020-02-15.
C6_PeriodMapping ==
    probeOut # <<>> =>
        /\ probeOut[1] = C6_Expected(probeIn)
        /\ probeIn = [y |-> 2020, m |-> 1, d |-> 15] => probeOut[1] = [y |-> 2020, m |-> 1, d |-> 31]
        /\ probeIn = [y |-> 2020, m |-> 1, d |-> 16] => probeOut[1] = [y |-> 2020, m |-> 2, d |-> 15]
        /\ probeIn = [y |-> 2020, m |-> 1, d |-> 31] => probeOut[1] = [y |-> 2020, m |-> 2, d |-> 15]

\* a date late in December has been mapped into the next year
C6_Witness ==
    /\ probeIn = [y |-> 2020, m |-> 12, d |-> 16]
    /\ probeOut = <<[y |-> 2021, m |-> 1, d |-> 15]>>

C7_Expected(parts) ==
    LET n == Len(parts)
    IN  IF n < 6 THEN NoRow
        ELSE IF parts[2] = <<>> THEN NoRow
        ELSE IF n = 6 THEN parts
        ELSE [i \in 1..6 |->
                 IF i <= 4 THEN parts[i]
                 ELSE IF i = 6 THEN parts[n]
                 ELSE Join([k \in 1..(n - 5) |-> parts[k + 4]], "-")]

\* C7: a data line yields six fields or nothing: six parts unchanged, seven
\* parts with parts 4 and 5 hyphenated, more with parts 4..n-2 hyphenated,
\* fewer than six nothing, and nothing when the second field is empty.
C7_LineRepair ==
    probeOut # <<>> =>
        /\ probeOut[1] = NoRow \/ Len(probeOut[1]) = 6
        /\ probeOut[1] = C7_Expected(StripAll(Split(probeIn, "|")))

\* a line of eight parts is repaired, its three middle parts hyphenated
C7_Witness ==
    /\ probeOut # <<>>
    /\ Len(Split(probeIn, "|")) = 8
    /\ probeOut[1] # NoRow
    /\ probeOut[1][5] = <<"a", "-", "-">>

C8_LacksColumn(file) ==
    /\ file.kind = "text"
    /\ file.lines # <<>>
    /\ ~(Required \subseteq Range(HeaderOf(file.lines[1])))

\* C8: no exception other than a failed archive write leaves run(), and
\* once run() is through a file that lacks a required column the file is
\* gone and no archive was rewritten for it.
C8_Absorbed ==
    /\ pc = "raised" => err = "fs"
    /\ (pc = "iter" /\ cur # NoCur /\ C8_LacksColumn(FileOf(cur.file)))
       => (last = NoLast /\ dir[cur.name] = NoFileId)

\* C9: while an archive is being rewritten, and when the write has failed,
\* it holds every line it held before the rewrite began.
C9_AtomicReplace ==
    (last # NoLast /\ ~last.done /\ Readable(last.before))
    => Range(last.before.recs) \subseteq RecSet(ArchiveAt(last.period))

C10_Unread == last # NoLast /\ last.before.kind # "none" /\ ~Readable(last.before)

\* C10: when the archive exists and its record set cannot be read, no
\* exception other than a failed write leaves run(), the archive is written
\* with exactly the group's rows, and the file is unlinked after its last
\* group as usual.
C10_ReadFailureStartsEmpty ==
    C10_Unread =>
        /\ pc = "raised" => err = "fs"
        /\ last.done => ArchiveAt(last.period) = Zip(TRUE, FmtRows(last.new))
        /\ (last.done /\ pc = "iter") => dir[cur.name] = NoFileId

\* a container whose record set could not be read was rewritten from a
\* group of several rows, and the file is gone
C10_Witness ==
    /\ C10_Unread
    /\ last.done
    /\ last.before.kind = "zip"
    /\ Len(last.new) > 1
    /\ pc = "iter"

====
